---- MODULE Spec2Model ----
(***************************************************************************)
(* A model of src/src/fee-estimator.ts (btc-congestion-manager): the       *)
(* mempool poller and packer, the pairwise differ, the kinematic           *)
(* estimator and the fee recommendation filter.                            *)
(*                                                                         *)
(* JavaScript numbers are modelled as exact rationals [num, den] with the  *)
(* IEEE specials kept: den = 0 stands for +Infinity (num = 1), -Infinity   *)
(* (num = -1) and NaN (num = 0).  Rounding and the sign of zero are not    *)
(* modelled.                                                               *)
(***************************************************************************)
EXTENDS Integers, Sequences, FiniteSets, TLC

VARIABLES
    packIn,        \* sortByFee: the raw mempool handed to it (key order kept)
    packOut,       \* sortByFee: <<its result>>, <<>> before the call
    fees,          \* feeDiff$: combineLatest's latest FeeEstimate per target
                   \* (<<>> while a target has none, <<estimate>> after)
    feeDiffOut,    \* <<the list feeDiff$ emitted last>>, <<>> before the first
    minDiffOut,    \* <<the list minDiff$ emitted last>>, <<>> before the first
    kinTarget,     \* initialPosition(targetBlock): its argument
    xHist,         \* the values finalPosition(targetBlock) has emitted
    velHist,       \* the values velocity(targetBlock) has emitted
    accHist,       \* the values acceleration(targetBlock) has emitted
    accAcc,        \* acceleration's scan accumulator (<<>> before the seed)
    ipSlots,       \* initialPosition's combineLatest: latest x, v, a (<<>> or <<value>>)
    ipLast,        \* initialPosition's distinctUntilChanged: the last value passed
    ipOut,         \* the emissions of initialPosition(targetBlock), each with the
                   \* number of values its three sources had emitted by then
    pending,       \* memPooler$: the ids of the RPC calls in flight (flatMap)
    pollCount,     \* memPooler$: the number of polls triggered so far
    scanAcc,       \* memPooler$: scan's accumulator, <<[ref, raw]>> (<<>> before)
    ducLast,       \* memPooler$: the object distinctUntilChanged passed last
    prevSnap,      \* last2Mempools$: the snapshot in bufferCount(2, 1)'s open buffer
    ibiLatest,     \* withLatestFrom(interBlockInterval$): the latest interval
    prevRaw,       \* the raw mempool the previous RPC response carried
    lastStep,      \* what the last RPC response made the streams emit
    counts,        \* how many values each stream has emitted so far
    rateTarget,    \* velocity(targetBlock): its argument
    addOpen,       \* bufferAdded$: bufferTime's open buffers, oldest first
    addLast,       \* addedBytesAheadTargetPer10min: distinctUntilChanged's last value
    addOut,        \* the values addedBytesAheadTargetPer10min has emitted
    rmBuf,         \* bufferRemoved$: buffer()'s open buffer
    rmDelayed,     \* bufferRemoved$: block hashes inside blockHash$.delay(5e+3)
    rmIbi,         \* bufferRemoved$: withLatestFrom's latest inter-block interval
    rmWindow,      \* bufferRemoved$: bufferCount(intBlocksRemoved, 1)'s open buffer
    rmLast,        \* removedBytesAheadTargetPer10min: distinctUntilChanged's last value
    rmOut,         \* the values removedBytesAheadTargetPer10min has emitted
    velSlots,      \* velocity's combineLatest: latest addV and rmV
    velLast,       \* velocity's distinctUntilChanged: the last value passed
    rateEvents,    \* how many events the rate streams have been fed
    sawTx,         \* whether any added or removed transaction has arrived
    txSlots,       \* getFeeTx's combineLatest: latest position and snapshot
    txStep,        \* what the last event made finalPosition, getFeeTx and getFee emit
    txEvents,      \* how many snapshots memPooler$ has emitted
    feeSeen,       \* whether getFee(targetBlock) has emitted a FeeEstimate
    sawNext,       \* whether a snapshot held a transaction of block targetBlock + 1
    sawNonEmpty,   \* whether a snapshot held any transaction
    subscribed,    \* whether the root subscriber is subscribed to the pipeline
    errors,        \* how many errors have reached retryWhen's notifier
    logged         \* the error console.error printed last, if any

Undefined == "undefined"

-----------------------------------------------------------------------------
(* JavaScript number arithmetic                                            *)

Abs(n) == IF n < 0 THEN -n ELSE n
Sign(n) == IF n < 0 THEN -1 ELSE IF n > 0 THEN 1 ELSE 0

RECURSIVE Gcd(_, _)
Gcd(a, b) == IF b = 0 THEN a ELSE Gcd(b, a % b)

\* the number n/d, in lowest terms with a positive denominator
Q(n, d) ==
    IF d = 0 THEN [num |-> Sign(n), den |-> 0]
    ELSE LET g == Gcd(Abs(n), Abs(d))
             s == Sign(d)
         IN  [num |-> (s * n) \div g, den |-> (s * d) \div g]

R(n) == [num |-> n, den |-> 1]
NaN == [num |-> 0, den |-> 0]
PosInf == [num |-> 1, den |-> 0]
NegInf == [num |-> -1, den |-> 0]

IsNaN(a) == a.den = 0 /\ a.num = 0
IsFinite(a) == a.den # 0

JsMul(a, b) ==
    IF a.den = 0 \/ b.den = 0 THEN Q(a.num * b.num, 0)
    ELSE LET g == Gcd(Abs(a.num), b.den)
             h == Gcd(Abs(b.num), a.den)
         IN  Q((a.num \div g) * (b.num \div h), (a.den \div h) * (b.den \div g))
JsNeg(a) == [num |-> -a.num, den |-> a.den]
JsAdd(a, b) ==
    IF a.den = 0 /\ b.den = 0 THEN (IF a.num = b.num THEN a ELSE NaN)
    ELSE IF a.den = 0 THEN a
    ELSE IF b.den = 0 THEN b
    ELSE LET g == Gcd(a.den, b.den)
         IN  Q(a.num * (b.den \div g) + b.num * (a.den \div g),
               (a.den \div g) * b.den)
JsSub(a, b) == JsAdd(a, JsNeg(b))
JsDiv(a, b) ==
    IF b.den = 0 THEN (IF a.den = 0 THEN NaN ELSE Q(0, b.num * b.num))
    ELSE JsMul(a, Q(b.den, b.num))

\* a < b, a <= b, a === b: every comparison with NaN is false
JsLt(a, b) ==
    /\ ~IsNaN(a) /\ ~IsNaN(b)
    /\ IF a.den = 0 /\ b.den = 0 THEN a.num < b.num
       ELSE IF a.den = 0 THEN a.num < 0
       ELSE IF b.den = 0 THEN b.num > 0
       ELSE LET g == Gcd(a.den, b.den)
            IN  a.num * (b.den \div g) < b.num * (a.den \div g)
JsStrictEq(a, b) == ~IsNaN(a) /\ ~IsNaN(b) /\ a = b
JsLe(a, b) == JsLt(a, b) \/ JsStrictEq(a, b)
JsGe(a, b) == JsLe(b, a)
JsGt(a, b) == JsLt(b, a)

\* the sign Array.prototype.sort reads off a comparator's result (NaN is 0)
SortSign(a) == IF IsNaN(a) THEN 0 ELSE Sign(a.num)

-----------------------------------------------------------------------------
(* Array.prototype.sort: a stable merge sort under a comparator            *)

byFeeRateAsc(a, b) == SortSign(JsSub(a.feeRate, b.feeRate))

\* (a, b) => b.feeRate - a.feeRate
byFeeRateDesc(a, b) == SortSign(JsSub(b.feeRate, a.feeRate))

\* how many elements of the sorted r come strictly before e (a prefix of r)
RECURSIVE RankByFeeRate(_, _, _, _)
RankByFeeRate(r, e, lo, hi) ==
    IF lo > hi THEN lo - 1
    ELSE LET mid == (lo + hi) \div 2
         IN  IF byFeeRateDesc(e, r[mid]) > 0
             THEN RankByFeeRate(r, e, mid + 1, hi)
             ELSE RankByFeeRate(r, e, lo, mid - 1)

\* the stable merge of two sorted runs: on a tie the element of l comes first
RECURSIVE MergeByFeeRate(_, _)
MergeByFeeRate(l, r) ==
    IF l = <<>> THEN r
    ELSE IF r = <<>> THEN l
    ELSE LET m == (Len(l) + 1) \div 2
             c == RankByFeeRate(r, l[m], 1, Len(r))
         IN  MergeByFeeRate(SubSeq(l, 1, m - 1), SubSeq(r, 1, c))
               \o <<l[m]>>
               \o MergeByFeeRate(SubSeq(l, m + 1, Len(l)), SubSeq(r, c + 1, Len(r)))

RECURSIVE SortByFeeRateDesc(_)
SortByFeeRateDesc(s) ==
    IF Len(s) <= 1 THEN s
    ELSE LET h == Len(s) \div 2
         IN  MergeByFeeRate(SortByFeeRateDesc(SubSeq(s, 1, h)),
                            SortByFeeRateDesc(SubSeq(s, h + 1, Len(s))))

-----------------------------------------------------------------------------
(* sortByFee                                                               *)

\* config.constants.blockSize * (1 - config.constants.minersReservedBlockRatio)
blockEffectiveSize == 1000000

\* the projection of one raw entry, .map((txid) => ({...}))
ProjectTx(e) ==
    [ size |-> e.size,
      fee |-> e.fee,
      descendantsize |-> Undefined,     \* read from the key 'descendentsize'
      descendantfees |-> Undefined,     \* read from the key 'descendentfees'
      txid |-> e.txid,
      feeRate |-> Q(e.descendantfees, e.descendantsize) ]

PackCrossesAtOrAbove(cumSize, n) == cumSize >= n * blockEffectiveSize

\* whether the walk increments targetBlock and n at this transaction
PackCrosses(cumSize, n) == cumSize > n * blockEffectiveSize

PackedTx(tx, cumSize, targetBlock) ==
    [ size |-> tx.size, fee |-> tx.fee,
      descendantsize |-> tx.descendantsize,
      descendantfees |-> tx.descendantfees,
      txid |-> tx.txid, feeRate |-> tx.feeRate,
      cumSize |-> cumSize, targetBlock |-> targetBlock ]

\* a step that increments once per multiple crossed (while instead of if)
PackStepWhile(tx, st) ==
    LET c == st.cumSize + tx.size
        k == Cardinality({m \in st.n .. (st.n + c \div blockEffectiveSize) :
                            c > m * blockEffectiveSize})
    IN  [ out |-> <<PackedTx(tx, c, st.targetBlock + k)>>,
          cumSize |-> c, targetBlock |-> st.targetBlock + k, n |-> st.n + k ]

\* a step that increments targetBlock but leaves the counter n alone
PackStepKeepsN(tx, st) ==
    LET c == st.cumSize + tx.size
        up == PackCrosses(c, st.n)
        t == IF up THEN st.targetBlock + 1 ELSE st.targetBlock
    IN  [ out |-> <<PackedTx(tx, c, t)>>,
          cumSize |-> c, targetBlock |-> t, n |-> st.n ]

\* one call of .map((tx) => { cumSize += tx.size; if (cumSize > n *
\* blockEffectiveSize) { targetBlock += 1; n += 1 }; return {...} }) on the
\* closure's cumSize, targetBlock and n
PackStep(tx, st) ==
    LET c == st.cumSize + tx.size
        up == PackCrosses(c, st.n)
        t == IF up THEN st.targetBlock + 1 ELSE st.targetBlock
    IN  [ out |-> <<PackedTx(tx, c, t)>>,
          cumSize |-> c, targetBlock |-> t,
          n |-> IF up THEN st.n + 1 ELSE st.n ]

\* .map over s[lo .. hi] in order, threading the closure's variables
RECURSIVE PackWalk(_, _, _, _)
PackWalk(s, lo, hi, st) ==
    IF lo > hi THEN [st EXCEPT !.out = <<>>]
    ELSE IF lo = hi THEN PackStep(s[lo], st)
    ELSE LET mid == (lo + hi) \div 2
             left == PackWalk(s, lo, mid, st)
             right == PackWalk(s, mid + 1, hi, left)
         IN  IF left.n >= st.n     \* always true: the left half is walked first
             THEN [right EXCEPT !.out = left.out \o right.out]
             ELSE left

\* sortByFee = (txs, cumSize = 0, targetBlock = 1, n = 1) => ...
sortByFee(txs) ==
    LET sorted == SortByFeeRateDesc([i \in DOMAIN txs |-> ProjectTx(txs[i])])
    IN  PackWalk(sorted, 1, Len(sorted),
                 [out |-> <<>>, cumSize |-> 0, targetBlock |-> 1, n |-> 1]).out

-----------------------------------------------------------------------------
(* The packing specification: sortByFee applied to every small raw mempool *)

MaxTxs == 3
TxIds == 1 .. MaxTxs
Sizes == {100000, 500000, 600000, 2500000}
\* (descendantfees, descendantsize) pairs: fee rates 1/2, 1 and 1
DescPairs == {<<1000, 2000>>, <<1000, 1000>>, <<2000, 2000>>}

RawEntries ==
    { [txid |-> t, size |-> s, fee |-> p[1], descendantsize |-> p[2],
       descendantfees |-> p[1]] : t \in TxIds, s \in Sizes, p \in DescPairs }

\* the raw mempools of up to MaxTxs entries, in every key order
RawMempools ==
    UNION { { s \in [1 .. k -> RawEntries] :
                \A i, j \in 1 .. k : i # j => s[i].txid # s[j].txid }
            : k \in 0 .. MaxTxs }

packVars == <<packIn, packOut>>

PackInit == packIn \in RawMempools /\ packOut = <<>>

PackIdle == packIn = <<>> /\ packOut = <<>>

PackCall ==
    /\ packOut = <<>>
    /\ packOut' = <<sortByFee(packIn)>>
    /\ UNCHANGED packIn

-----------------------------------------------------------------------------
(* getFee, feeDiff$ and minDiff$                                           *)

range == <<1, 2, 3, 4>>
Targets == {range[i] : i \in DOMAIN range}

\* config.constants.minSavingsRate, as MinSavingsNum / MinSavingsDen
MinSavingsNum == 2
MinSavingsDen == 100
minSavingsRate == Q(MinSavingsNum, MinSavingsDen)

\* the FeeEstimate getFee(targetBlock) emits (timestamp and date are carried
\* along unread and are left out)
FeeEstimate(targetBlock, feeRate) ==
    [ feeRate |-> feeRate, targetBlock |-> targetBlock ]

FeeDiffDropsEqual(e) == JsLt(e.diff, R(0))

\* .filter(x => x.diff <= 0)
FeeDiffKeeps(e) == JsLe(e.diff, R(0))

\* the slope of entry i of the combined estimates
FeeSlope(xs, i) ==
    IF i > 1
    THEN JsDiv(JsSub(xs[i].feeRate, xs[i - 1].feeRate), R(range[i] - range[i - 1]))
    ELSE R(0)

feeDiff(xs) ==
    SelectSeq([i \in DOMAIN xs |->
                  [ diff |-> FeeSlope(xs, i),
                    feeRate |-> xs[i].feeRate,
                    targetBlock |-> xs[i].targetBlock ]],
              FeeDiffKeeps)

\* let cumDiff = 0; ... cumDiff += fee.diff, after entry i
RECURSIVE CumDiff(_, _)
CumDiff(xs, i) == IF i = 0 THEN R(0) ELSE JsAdd(CumDiff(xs, i - 1), xs[i].diff)

\* fee.diff === 0 || fee.diff / xs[i - 1].feeRate >= minSavingsRate
\* (entry 1 is always target 1, whose diff is 0, so xs[0 - 1] is never read)
MinDiffValid(xs, i) ==
    \/ JsStrictEq(xs[i].diff, R(0))
    \/ i > 1 /\ JsGe(JsDiv(xs[i].diff, xs[i - 1].feeRate), minSavingsRate)

\* the square of Math.sqrt(e.diff * e.cumDiff) / e.targetBlock
CostSq(e) == JsDiv(JsMul(e.diff, e.cumDiff), R(e.targetBlock * e.targetBlock))

\* the sign of Math.sqrt(A) / ta - Math.sqrt(B) / tb, read off the squares
\* (Math.sqrt of a negative number is NaN)
CostDiffSign(a, b) ==
    IF JsLt(CostSq(a), R(0)) \/ JsLt(CostSq(b), R(0)) THEN 0
    ELSE SortSign(JsSub(CostSq(a), CostSq(b)))

byCostAsNamed(first, second) == CostDiffSign(first, second)

\* .sort((b, a) => cost(a) - cost(b)): the first argument is named b
byCost(first, second) == CostDiffSign(second, first)

\* Array.prototype.sort on at most four entries (insertion sort, stable)
RECURSIVE InsertByCost(_, _)
InsertByCost(sorted, e) ==
    IF sorted = <<>> THEN <<e>>
    ELSE LET last == sorted[Len(sorted)]
         IN  IF byCost(last, e) > 0
             THEN InsertByCost(SubSeq(sorted, 1, Len(sorted) - 1), e) \o <<last>>
             ELSE sorted \o <<e>>

RECURSIVE SortByCost(_)
SortByCost(s) ==
    IF s = <<>> THEN <<>>
    ELSE InsertByCost(SortByCost(SubSeq(s, 1, Len(s) - 1)), s[Len(s)])

MinDiffIsValid(e) == e.valid

minDiff(x) ==
    SortByCost(
        SelectSeq([i \in DOMAIN x |->
                      [ diff |-> x[i].diff,
                        feeRate |-> x[i].feeRate,
                        targetBlock |-> x[i].targetBlock,
                        cumDiff |-> CumDiff(x, i),
                        valid |-> MinDiffValid(x, i) ]],
                  MinDiffIsValid))

\* the feeRate of a FeeEstimate; descendantfees is the node's modified fee,
\* which prioritisetransaction can make negative
FeeRates == {R(-20), R(-10), R(90), R(94), R(95), R(100)}

feeVars == <<fees, feeDiffOut, minDiffOut>>

FeeIdle ==
    /\ fees = [i \in DOMAIN range |-> <<>>]
    /\ feeDiffOut = <<>>
    /\ minDiffOut = <<>>

\* getFee(range[i]) emits: combineLatest(...fees) emits once every target has
\* a value, then feeDiff$'s map and minDiff$'s map run
GetFeeEmits(i, r) ==
    LET slots == [fees EXCEPT ![i] = <<FeeEstimate(range[i], r)>>]
        latest == [j \in DOMAIN range |-> slots[j][1]]
    IN  /\ fees' = slots
        /\ IF \A j \in DOMAIN range : slots[j] # <<>>
           THEN /\ feeDiffOut' = <<feeDiff(latest)>>
                /\ minDiffOut' = <<minDiff(feeDiff(latest))>>
           ELSE UNCHANGED <<feeDiffOut, minDiffOut>>

-----------------------------------------------------------------------------
(* acceleration and initialPosition                                        *)

squareTimesTwo(n) == n * 2

square(n) == n * n

\* velocity(targetBlock).scan((v0, v1) => v1 - v0): without a seed the first
\* value is passed through; the accumulator is the value scan emitted last
accelerationScan(acc, v1) == IF acc = <<>> THEN v1 ELSE JsSub(v1, acc[1])

\* (x, v, a) => x - (v * targetBlock + 1 / 2 * a * square(targetBlock))
initialPositionOf(x, v, a, targetBlock) ==
    JsSub(x, JsAdd(JsMul(v, R(targetBlock)),
                   JsMul(JsMul(Q(1, 2), a), R(square(targetBlock)))))

distinctPassesAll(last, value) == TRUE

\* distinctUntilChanged: the first value passes, later ones when !== the last
distinctPasses(last, value) ==
    IF last = <<>> THEN TRUE ELSE ~JsStrictEq(last[1], value)

\* one source of initialPosition's combineLatest has just stored its value in
\* slots: st is [slots, last, out], nx/nv/na count the sources' emissions
CombineLatestStep(st, nx, nv, na) ==
    IF \E k \in 1 .. 3 : st.slots[k] = <<>> THEN st
    ELSE LET value == initialPositionOf(st.slots[1][1], st.slots[2][1],
                                        st.slots[3][1], kinTarget)
         IN  IF distinctPasses(st.last, value)
             THEN [ slots |-> st.slots,
                    last |-> <<value>>,
                    out |-> Append(st.out, [value |-> value, nx |-> nx,
                                            nv |-> nv, na |-> na]) ]
             ELSE st

MaxKinEvents == 4
\* finalPosition's values are cumSize values; velocity is addV - rmV, where
\* rmV is Infinity or NaN when the coalesced inter-block interval is 0
FinalPositions == {R(1100000), R(1200000)}
Velocities == {R(-100000), R(0), R(100001), R(200000), NegInf, NaN}

kinVars == <<kinTarget, xHist, velHist, accHist, accAcc, ipSlots, ipLast, ipOut>>

KinStart ==
    /\ xHist = <<>> /\ velHist = <<>> /\ accHist = <<>>
    /\ accAcc = <<>>
    /\ ipSlots = << <<>>, <<>>, <<>> >>
    /\ ipLast = <<>>
    /\ ipOut = <<>>

KinInit == kinTarget \in Targets /\ KinStart
KinIdle == kinTarget = 1 /\ KinStart

KinStateNow == [slots |-> ipSlots, last |-> ipLast, out |-> ipOut]

\* finalPosition(targetBlock) emits x
FinalPositionEmits(x) ==
    /\ Len(xHist) + Len(velHist) < MaxKinEvents
    /\ LET st == CombineLatestStep(
                    [KinStateNow EXCEPT !.slots[1] = <<x>>],
                    Len(xHist) + 1, Len(velHist), Len(accHist))
       IN  /\ ipSlots' = st.slots
           /\ ipLast' = st.last
           /\ ipOut' = st.out
    /\ xHist' = Append(xHist, x)
    /\ UNCHANGED <<kinTarget, velHist, accHist, accAcc>>

\* velocity(targetBlock) emits v (its own distinctUntilChanged has passed v):
\* initialPosition's velocity subscription is served first, then the
\* acceleration subscription, whose scan emits into the third slot
VelocityEmits(v) ==
    /\ Len(xHist) + Len(velHist) < MaxKinEvents
    /\ IF velHist = <<>> THEN TRUE ELSE ~JsStrictEq(velHist[Len(velHist)], v)
    /\ LET a == accelerationScan(accAcc, v)
           st1 == CombineLatestStep(
                     [KinStateNow EXCEPT !.slots[2] = <<v>>],
                     Len(xHist), Len(velHist) + 1, Len(accHist))
           st2 == CombineLatestStep(
                     [st1 EXCEPT !.slots[3] = <<a>>],
                     Len(xHist), Len(velHist) + 1, Len(accHist) + 1)
       IN  /\ accAcc' = <<a>>
           /\ accHist' = Append(accHist, a)
           /\ ipSlots' = st2.slots
           /\ ipLast' = st2.last
           /\ ipOut' = st2.out
    /\ velHist' = Append(velHist, v)
    /\ UNCHANGED <<kinTarget, xHist>>

-----------------------------------------------------------------------------
(* memPooler$, last2Mempools$, addedTxs$, removedTxsShared$, minedTxs$     *)

\* The raw mempools the node returns: two large transactions, 1 and 2, and a
\* block of BulkSize small ones that come and go together.  A raw mempool is
\* named by its place in RawFamily; what the streams compute from it is
\* tabulated once (KeySets, Snapshots).
MaxPolls == 3
BulkSize == 499
Tx1 == [txid |-> 1, size |-> 600000, fee |-> 3000, descendantsize |-> 1000,
        descendantfees |-> 3000]
Tx1Bumped == [Tx1 EXCEPT !.descendantfees = 9000, !.descendantsize = 2000]
Tx2 == [txid |-> 2, size |-> 500000, fee |-> 4000, descendantsize |-> 1000,
        descendantfees |-> 4000]
BulkTx(t) == [txid |-> t, size |-> 4000, fee |-> 400 + (t % 3) * 100,
              descendantsize |-> 400, descendantfees |-> 400 + (t % 3) * 100]
Bulk == [i \in 1 .. BulkSize |-> BulkTx(2 + i)] \o <<>>
RawFamily ==
    << <<>>, <<Tx1>>, <<Tx2>>, <<Tx1, Tx2>>, <<Tx2, Tx1>>, <<Tx1Bumped, Tx2>>,
       <<Tx1>> \o Bulk, Bulk \o <<Tx2, Tx1>> >>
RawIds == DOMAIN RawFamily
IntervalList == <<0, 600000>>
Intervals == {IntervalList[k] : k \in DOMAIN IntervalList}

\* the set of (key, entry) pairs of each raw mempool
KeySets ==
    [k \in RawIds |-> {RawFamily[k][i] : i \in DOMAIN RawFamily[k]}] \o <<>>

\* lodash isEqual on two raw mempools: the same keys with deeply equal
\* entries, whatever the key order
isEqual(x, y) == KeySets[x] = KeySets[y]

\* .map(txs => sortByFee(txs)) on each raw mempool
Snapshots == [k \in RawIds |-> sortByFee(RawFamily[k])] \o <<>>

differenceBySwapped(a, b) ==
    LET ids == {a[i].txid : i \in DOMAIN a}
        Keep(t) == t.txid \notin ids
    IN  SelectSeq(b, Keep)

\* lodash differenceBy(a, b, 'txid'): the elements of a whose txid no
\* element of b has, in a's order
differenceBy(a, b) ==
    LET ids == {b[i].txid : i \in DOMAIN b}
        Keep(t) == t.txid \notin ids
    IN  SelectSeq(a, Keep)

\* differenceBy(x, y, 'txid') for every two snapshots x and y
Differences ==
    [x \in RawIds |->
        [y \in RawIds |-> differenceBy(Snapshots[x], Snapshots[y])] \o <<>>] \o <<>>

\* .filter(txs => txs.length > 500)
MinedThreshold == 500

minedAtThreshold(txs) == Len(txs) >= MinedThreshold

minedFilter(txs) == Len(txs) > MinedThreshold

\* the quantiles of minedTxsSummary$'s fee field: .4, .2, .1, .05, .01, .005, .001
quantiles == <<Q(4, 10), Q(2, 10), Q(1, 10), Q(5, 100), Q(1, 100),
               Q(5, 1000), Q(1, 1000)>>

minQuantFromCeil(xs, quantile) ==
    LET n == (Len(xs) * quantile.num + quantile.den - 1) \div quantile.den
    IN  SubSeq(xs, Len(xs) - n + 1, Len(xs))

\* minQuant = (xs, quantile) => xs.filter((_, i) => i > xs.length * (1 -
\* quantile)), i counting from 0: the indices that pass are a tail of xs
minQuant(xs, quantile) ==
    LET bar == JsMul(R(Len(xs)), JsSub(R(1), quantile))
        n == Cardinality({i \in DOMAIN xs : JsGt(R(i - 1), bar)})
    IN  SubSeq(xs, Len(xs) - n + 1, Len(xs))

\* the sum of feeRate over xs[lo .. hi]
RECURSIVE SumFeeRate(_, _, _)
SumFeeRate(xs, lo, hi) ==
    IF lo > hi THEN R(0)
    ELSE IF lo = hi THEN xs[lo].feeRate
    ELSE LET mid == (lo + hi) \div 2
         IN  JsAdd(SumFeeRate(xs, lo, mid), SumFeeRate(xs, mid + 1, hi))

\* lodash meanBy(xs, 'feeRate'): NaN for an empty array
meanBy(xs) ==
    IF xs = <<>> THEN NaN ELSE JsDiv(SumFeeRate(xs, 1, Len(xs)), R(Len(xs)))

\* the sum of size over xs[lo .. hi]
RECURSIVE SumSize(_, _, _)
SumSize(xs, lo, hi) ==
    IF lo > hi THEN 0
    ELSE IF lo = hi THEN xs[lo].size
    ELSE LET mid == (lo + hi) \div 2
         IN  SumSize(xs, lo, mid) + SumSize(xs, mid + 1, hi)

\* the place in xs[lo .. hi] of the element lodash minBy(xs, 'feeRate') keeps:
\* a later element replaces the current one only when its feeRate is < it
RECURSIVE MinByPlace(_, _, _)
MinByPlace(xs, lo, hi) ==
    IF lo = hi THEN lo
    ELSE LET mid == (lo + hi) \div 2
             l == MinByPlace(xs, lo, mid)
             r == MinByPlace(xs, mid + 1, hi)
         IN  IF JsLt(xs[r].feeRate, xs[l].feeRate) THEN r ELSE l

\* lodash minBy(xs, 'feeRate')
minBy(xs) == xs[MinByPlace(xs, 1, Len(xs))]

\* minedTxsSummary$'s two maps on a mined list and the latest inter-block
\* interval (timestamp and date left out)
minedTxsSummary(mempool, ibi) ==
    LET x == SortByFeeRateDesc(mempool)
    IN  [ ibi |-> Q(ibi, 60000),
          txs |-> Len(x),
          blockSize |-> Q(SumSize(x, 1, Len(x)), 1000000),
          fee |-> [k \in DOMAIN quantiles |-> meanBy(minQuant(x, quantiles[k]))],
          minFeeTx |-> minBy(x).txid ]

\* minedTxsSummary$'s value for every two snapshots whose difference passes
\* the mined filter and every inter-block interval (by its place in
\* IntervalList), <<>> where the filter lets nothing through
MinedSummaries ==
    [x \in RawIds |->
        [y \in RawIds |->
            [k \in DOMAIN IntervalList |->
                IF minedFilter(Differences[x][y])
                THEN <<minedTxsSummary(Differences[x][y], IntervalList[k])>>
                ELSE <<>>] \o <<>>] \o <<>>] \o <<>>

scanAlwaysTakesNew(x, y) == y

\* .scan((x, y) => !isEqual(x, y) ? y : x), on objects [ref, raw]: ref is the
\* object's identity (the RPC call that created it)
memPoolerScan(x, y) == IF ~isEqual(x.raw, y.raw) THEN y ELSE x

\* .distinctUntilChanged(): the first value passes, later ones when they are
\* not the same object (!==) as the last one passed
distinctUntilChanged(last, acc) ==
    IF last = <<>> THEN TRUE ELSE last[1].ref # acc.ref

pipeVars == <<pending, pollCount, scanAcc, ducLast, prevSnap, ibiLatest,
              prevRaw, lastStep, counts>>

NoStep == [ dup |-> FALSE, snap |-> FALSE, pair |-> <<>>, addedIds |-> {},
            removedIds |-> {}, nAdded |-> 0, nRemoved |-> 0,
            mined |-> FALSE, summary |-> FALSE, minedSummary |-> <<>>,
            refs |-> <<>> ]

PipeInit ==
    /\ pending = {}
    /\ pollCount = 0
    /\ scanAcc = <<>>
    /\ ducLast = <<>>
    /\ prevSnap = <<>>
    /\ ibiLatest = <<>>
    /\ prevRaw = <<>>
    /\ lastStep = NoStep
    /\ counts = [ resp |-> 0, runs |-> 0, snap |-> 0, pair |-> 0, mined |-> 0,
                  summary |-> 0 ]

\* Observable.timer(0, timeRes) ticks: flatMap starts rpc.getRawMemPool(true)
TimerTick ==
    /\ pollCount < MaxPolls
    /\ pollCount' = pollCount + 1
    /\ pending' = pending \cup {pollCount + 1}
    /\ UNCHANGED <<scanAcc, ducLast, prevSnap, ibiLatest, prevRaw, lastStep, counts>>

\* blockHash$ delivers a message: interBlockInterval$ emits the time since
\* the previous one, and memPooler$'s merge starts an RPC call
BlockHash(interval) ==
    /\ pollCount < MaxPolls
    /\ pollCount' = pollCount + 1
    /\ pending' = pending \cup {pollCount + 1}
    /\ ibiLatest' = <<interval>>
    /\ UNCHANGED <<scanAcc, ducLast, prevSnap, prevRaw, lastStep, counts>>

\* the RPC call id resolves with the raw mempool numbered raw, as a fresh
\* object: scan, distinctUntilChanged, sortByFee, bufferCount(2, 1), the two
\* differenceBy, the mined filter and withLatestFrom run in turn.  The
\* snapshot emitted is Snapshots[acc.raw]; prevSnap holds the number of the
\* raw mempool whose snapshot the buffer keeps; refs names the RPC calls whose
\* responses make the pair last2Mempools$ emits.
RpcResponse(id, raw) ==
    LET y == [ref |-> id, raw |-> raw]
        acc == IF scanAcc = <<>> THEN y ELSE memPoolerScan(scanAcc[1], y)
        passes == distinctUntilChanged(ducLast, acc)
        paired == passes /\ prevSnap # <<>>
        added == IF paired THEN Differences[acc.raw][prevSnap[1]] ELSE <<>>
        removed == IF paired THEN Differences[prevSnap[1]][acc.raw] ELSE <<>>
        mined == paired /\ minedFilter(removed)
        summary == mined /\ ibiLatest # <<>>
        dup == IF prevRaw = <<>> THEN FALSE ELSE KeySets[prevRaw[1]] = KeySets[raw]
        B(b) == IF b THEN 1 ELSE 0
    IN  /\ id \in pending
        /\ pending' = pending \ {id}
        /\ scanAcc' = <<acc>>
        /\ ducLast' = IF passes THEN <<acc>> ELSE ducLast
        /\ prevSnap' = IF passes THEN <<acc.raw>> ELSE prevSnap
        /\ prevRaw' = <<raw>>
        /\ lastStep' = [ dup |-> dup, snap |-> passes,
                         pair |-> IF paired THEN <<prevSnap[1], acc.raw>> ELSE <<>>,
                         addedIds |-> {added[i].txid : i \in DOMAIN added},
                         removedIds |-> {removed[i].txid : i \in DOMAIN removed},
                         nAdded |-> Len(added), nRemoved |-> Len(removed),
                         mined |-> mined, summary |-> summary,
                         minedSummary |->
                            IF summary
                            THEN MinedSummaries[prevSnap[1]][acc.raw][
                                    CHOOSE k \in DOMAIN IntervalList :
                                        IntervalList[k] = ibiLatest[1]]
                            ELSE <<>>,
                         refs |-> IF paired THEN <<ducLast[1].ref, acc.ref>>
                                  ELSE <<>> ]
        /\ counts' = [ resp |-> counts.resp + 1,
                       runs |-> counts.runs + B(~dup),
                       snap |-> counts.snap + B(passes),
                       pair |-> counts.pair + B(paired),
                       mined |-> counts.mined + B(mined),
                       summary |-> counts.summary + B(summary) ]
        /\ UNCHANGED <<pollCount, ibiLatest>>

-----------------------------------------------------------------------------

(* bufferAdded$, bufferRemoved$, the two rates, velocity and acceleration  *)

\* config.constants: mempool polling period and added-window width (ms), and
\* the number of block events the removed window spans
timeRes == 900000
intTimeAdded == 1800000
intBlocksRemoved == 2

\* .map(x => ({ size: x.size, cumSize: x.cumSize }))
SizeAndCumSize(tx) == [size |-> tx.size, cumSize |-> tx.cumSize]

\* .filter(tx => tx.cumSize < targetBlock * blockEffectiveSize)
AheadOfTarget(tx, targetBlock) == tx.cumSize < targetBlock * blockEffectiveSize

\* the sum of size over the transactions of txs ahead of targetBlock
RECURSIVE SizeAhead(_, _)
SizeAhead(txs, targetBlock) ==
    IF txs = <<>> THEN 0
    ELSE (IF AheadOfTarget(Head(txs), targetBlock) THEN Head(txs).size ELSE 0)
            + SizeAhead(Tail(txs), targetBlock)

\* bufferAdded$ .map(txs => ...reduce) .map(x => (x / intTimeAdded) * 10 * 60e+3)
addedBytesAheadTargetPer10min(txs, targetBlock) ==
    JsMul(JsMul(JsDiv(R(SizeAhead(txs, targetBlock)), R(intTimeAdded)), R(10)),
          R(60000))

\* bufferRemoved$'s reduce over the window: the intervals summed, the
\* transactions concatenated
RECURSIVE Coalesce(_)
Coalesce(window) ==
    IF window = <<>> THEN [ibi |-> 0, txs |-> <<>>]
    ELSE LET acc == Coalesce(SubSeq(window, 1, Len(window) - 1))
             y == window[Len(window)]
         IN  [ibi |-> y.ibi + acc.ibi, txs |-> acc.txs \o y.txs]

\* bufferRemoved$ .map(x => ...reduce) .map(x => x.value / (x.ibi / 60e+3) * 10)
removedBytesAheadTargetPer10min(x, targetBlock) ==
    JsMul(JsDiv(R(SizeAhead(x.txs, targetBlock)),
                JsDiv(R(x.ibi), R(60000))),
          R(10))

\* (addV, rmV) => ... x.addV - x.rmV
velocityOf(addV, rmV) == JsSub(addV, rmV)

MaxRateEvents == 7
MaxDelayed == 2
RateTxs == { [txid |-> 1, size |-> 300000, cumSize |-> 300000, targetBlock |-> 1],
             [txid |-> 2, size |-> 600000, cumSize |-> 1500000, targetBlock |-> 2] }
RemovedLists == { <<t>> : t \in RateTxs }
                  \cup { s \in RateTxs \X RateTxs : s[1].txid < s[2].txid }

rateVars == <<rateTarget, addOpen, addLast, addOut, rmBuf, rmDelayed, rmIbi,
              rmWindow, rmLast, rmOut, velSlots, velLast, rateEvents, sawTx>>

RateStart ==
    /\ addOpen = << <<>> >>
    /\ addLast = <<>> /\ addOut = <<>>
    /\ rmBuf = <<>> /\ rmDelayed = 0 /\ rmIbi = <<>> /\ rmWindow = <<>>
    /\ rmLast = <<>> /\ rmOut = <<>>
    /\ velSlots = << <<>>, <<>> >>
    /\ velLast = <<>>
    /\ rateEvents = 0
    /\ sawTx = FALSE

RateInit == rateTarget \in {1, 2} /\ RateStart
RateIdle == rateTarget = 1 /\ RateStart

\* velocity's combineLatest after slot k took value: it emits once both
\* slots are filled and distinctUntilChanged passes; acceleration's scan
\* follows every velocity value
VelocityTakes(k, value) ==
    LET slots == [velSlots EXCEPT ![k] = <<value>>]
        ready == slots[1] # <<>> /\ slots[2] # <<>>
        v == velocityOf(slots[1][1], slots[2][1])
        emits == IF ready THEN distinctPasses(velLast, v) ELSE FALSE
    IN  /\ velSlots' = slots
        /\ IF emits
           THEN /\ velLast' = <<v>>
                /\ velHist' = Append(velHist, v)
                /\ accAcc' = <<accelerationScan(accAcc, v)>>
                /\ accHist' = Append(accHist, accelerationScan(accAcc, v))
           ELSE UNCHANGED <<velLast, velHist, accAcc, accHist>>

VelocityKeeps == UNCHANGED <<velSlots, velLast, velHist, accAcc, accHist>>

RateStep ==
    /\ rateEvents < MaxRateEvents
    /\ rateEvents' = rateEvents + 1
    /\ UNCHANGED <<rateTarget, kinTarget, xHist, ipSlots, ipLast, ipOut>>

\* addedTxs$ emits a transaction: every open buffer of bufferTime takes it
AddedTxEmits(tx) ==
    /\ RateStep
    /\ addOpen' = [k \in DOMAIN addOpen |-> Append(addOpen[k], SizeAndCumSize(tx))]
    /\ sawTx' = TRUE
    /\ VelocityKeeps
    /\ UNCHANGED <<addLast, addOut, rmBuf, rmDelayed, rmIbi, rmWindow, rmLast, rmOut>>

\* bufferTime(intTimeAdded, timeRes): every timeRes a buffer opens, and the
\* one opened intTimeAdded ago closes and is emitted, empty or not
WindowTick ==
    /\ RateStep
    /\ IF Len(addOpen) = intTimeAdded \div timeRes
       THEN LET x == addedBytesAheadTargetPer10min(Head(addOpen), rateTarget)
            IN  /\ addOpen' = Append(Tail(addOpen), <<>>)
                /\ IF distinctPasses(addLast, x)
                   THEN /\ addLast' = <<x>>
                        /\ addOut' = Append(addOut, x)
                        /\ VelocityTakes(1, x)
                   ELSE UNCHANGED <<addLast, addOut>> /\ VelocityKeeps
       ELSE /\ addOpen' = Append(addOpen, <<>>)
            /\ UNCHANGED <<addLast, addOut>>
            /\ VelocityKeeps
    /\ UNCHANGED <<rmBuf, rmDelayed, rmIbi, rmWindow, rmLast, rmOut, sawTx>>

\* removedTxsShared$ emits a non-empty list: flatMap hands its transactions
\* to buffer()
RemovedTxsEmit(txs) ==
    /\ RateStep
    /\ rmBuf' = rmBuf \o [i \in DOMAIN txs |-> SizeAndCumSize(txs[i])]
    /\ sawTx' = TRUE
    /\ VelocityKeeps
    /\ UNCHANGED <<addOpen, addLast, addOut, rmDelayed, rmIbi, rmWindow, rmLast, rmOut>>

\* blockHash$ delivers a message: interBlockInterval$ emits, and the message
\* enters blockHash$.delay(5e+3)
BlockHashNotifies(interval) ==
    /\ RateStep
    /\ rmDelayed < MaxDelayed
    /\ rmDelayed' = rmDelayed + 1
    /\ rmIbi' = <<interval>>
    /\ VelocityKeeps
    /\ UNCHANGED <<addOpen, addLast, addOut, rmBuf, rmWindow, rmLast, rmOut, sawTx>>

\* a delayed block hash closes buffer(): the buffer, empty or not, is paired
\* with the latest interval and enters bufferCount(intBlocksRemoved, 1),
\* which emits the window once it holds intBlocksRemoved buffers
DelayedBlockHash ==
    /\ RateStep
    /\ rmDelayed > 0
    /\ rmDelayed' = rmDelayed - 1
    /\ rmBuf' = <<>>
    /\ LET w == Append(rmWindow, [txs |-> rmBuf, ibi |-> rmIbi[1]])
       IN  IF Len(w) = intBlocksRemoved
           THEN LET x == removedBytesAheadTargetPer10min(Coalesce(w), rateTarget)
                IN  /\ rmWindow' = Tail(w)
                    /\ IF distinctPasses(rmLast, x)
                       THEN /\ rmLast' = <<x>>
                            /\ rmOut' = Append(rmOut, x)
                            /\ VelocityTakes(2, x)
                       ELSE UNCHANGED <<rmLast, rmOut>> /\ VelocityKeeps
           ELSE /\ rmWindow' = w
                /\ UNCHANGED <<rmLast, rmOut>>
                /\ VelocityKeeps
    /\ UNCHANGED <<addOpen, addLast, addOut, rmIbi, sawTx>>

-----------------------------------------------------------------------------
(* finalPosition, getFeeTx and getFee                                      *)

finalPositionOfTarget(txs, targetBlock) ==
    LET hits == {i \in DOMAIN txs : txs[i].targetBlock = targetBlock}
    IN  IF hits = {} THEN <<>>
        ELSE <<R(txs[CHOOSE i \in hits : \A j \in hits : i <= j].cumSize)>>

\* memPooler$.map(txs => txs.find(tx => tx.targetBlock === targetBlock + 1))
\* .filter(tx => tx !== undefined).map(tx => tx.cumSize): <<>> when filtered
finalPosition(txs, targetBlock) ==
    LET hits == {i \in DOMAIN txs : txs[i].targetBlock = targetBlock + 1}
    IN  IF hits = {} THEN <<>>
        ELSE <<R(txs[CHOOSE i \in hits : \A j \in hits : i <= j].cumSize)>>

\* Math.abs
JsAbs(a) == [num |-> Abs(a.num), den |-> a.den]

\* Math.abs(tx.cumSize - x.pos)
distance(tx, pos) == JsAbs(JsSub(R(tx.cumSize), pos))

minByDistanceLast(txs, pos, i, computed) ==
    IF computed = 0 THEN ~IsNaN(distance(txs[i], pos))
    ELSE JsLe(distance(txs[i], pos), distance(txs[computed], pos))

\* lodash minBy's test on element i against the element kept so far
\* (computed = 0: none yet, and a NaN is never kept)
minByDistanceTakes(txs, pos, i, computed) ==
    IF computed = 0 THEN ~IsNaN(distance(txs[i], pos))
    ELSE JsLt(distance(txs[i], pos), distance(txs[computed], pos))

\* lodash minBy(x, y => y.distance) from element i on: the place kept
RECURSIVE minByDistance(_, _, _, _)
minByDistance(txs, pos, i, computed) ==
    IF i > Len(txs) THEN computed
    ELSE minByDistance(txs, pos, i + 1,
                       IF minByDistanceTakes(txs, pos, i, computed)
                       THEN i ELSE computed)

\* getFeeTx's maps and filter on a (pos, txs) pair: <<>> when filtered out
getFeeTx(pos, txs) ==
    LET k == minByDistance(txs, pos, 1, 0)
    IN  IF k = 0 THEN <<>> ELSE <<txs[k]>>

\* getFee's maps on a transaction getFeeTx emitted
getFee(tx, targetBlock) ==
    FeeEstimate(targetBlock, JsMul(tx.feeRate, Q(999, 1000)))

\* getFeeTx's combineLatest after slot k took value: the (pos, txs) pair it
\* combines once both slots are filled (a sequence of at most one), with the
\* transaction getFeeTx lets through and the FeeEstimate getFee makes of it
GetFeeTxTakes(slots, k, value) ==
    LET s == [slots EXCEPT ![k] = <<value>>]
    IN  IF s[1] = <<>> \/ s[2] = <<>> THEN <<>>
        ELSE LET tx == getFeeTx(s[1][1], s[2][1])
             IN  << [ pos |-> s[1][1], txs |-> s[2][1], tx |-> tx,
                      fee |-> IF tx = <<>> THEN <<>>
                              ELSE <<getFee(tx[1], kinTarget)>> ] >>

\* the pairs for which getFee emitted
Emitted(pairs) == SelectSeq(pairs, LAMBDA p : p.fee # <<>>)

\* getFeeTx fed the positions ps in turn, each against the snapshot it holds
RECURSIVE GetFeeTxOnPositions(_, _)
GetFeeTxOnPositions(slots, ps) ==
    IF ps = <<>> THEN <<>>
    ELSE GetFeeTxTakes(slots, 1, Head(ps))
            \o GetFeeTxOnPositions([slots EXCEPT ![1] = <<Head(ps)>>], Tail(ps))

MaxSnapshots == 3
TxA == [txid |-> 1, size |-> 600000, fee |-> 1000, descendantsize |-> 1000,
        descendantfees |-> 1000]
TxB == [txid |-> 2, size |-> 600000, fee |-> 1000, descendantsize |-> 1000,
        descendantfees |-> 1000]
TxBHigh == [TxB EXCEPT !.descendantfees = 2000]
TxRaws == { <<>>, <<TxA>>, <<TxA, TxB>>, <<TxB, TxA>>, <<TxA, TxBHigh>> }
TxVelocities == {R(0), R(200000), NaN}

txVars == <<txSlots, txStep, txEvents, feeSeen, sawNext, sawNonEmpty>>

NoTxStep == [snap |-> <<>>, x |-> <<>>, pairs |-> <<>>, out |-> <<>>]

TxStart ==
    /\ txSlots = << <<>>, <<>> >>
    /\ txStep = NoTxStep
    /\ txEvents = 0
    /\ feeSeen = FALSE
    /\ sawNext = FALSE
    /\ sawNonEmpty = FALSE

\* the values initialPosition emitted in this step
NewPositions ==
    [i \in 1 .. (Len(ipOut') - Len(ipOut)) |-> ipOut'[Len(ipOut) + i].value]

\* memPooler$ emits sortByFee(raw): finalPosition's subscription (inside
\* initialPosition) is served first, then getFeeTx's own subscription
SnapshotEmits(raw) ==
    /\ txEvents < MaxSnapshots
    /\ txEvents' = txEvents + 1
    /\ LET txs == sortByFee(raw)
           x == finalPosition(txs, kinTarget)
       IN  /\ IF x = <<>> THEN UNCHANGED kinVars ELSE FinalPositionEmits(x[1])
           /\ LET early == GetFeeTxOnPositions(txSlots, NewPositions)
                  pos == IF NewPositions = <<>> THEN txSlots[1]
                         ELSE <<NewPositions[Len(NewPositions)]>>
                  late == GetFeeTxTakes(<<pos, txSlots[2]>>, 2, txs)
              IN  /\ txSlots' = <<pos, <<txs>>>>
                  /\ txStep' = [snap |-> <<txs>>, x |-> x, pairs |-> early \o late,
                                out |-> Emitted(early \o late)]
                  /\ feeSeen' = (feeSeen \/ Emitted(early \o late) # <<>>)
           /\ sawNext' = (sawNext \/ \E i \in DOMAIN txs :
                                        txs[i].targetBlock = kinTarget + 1)
           /\ sawNonEmpty' = (sawNonEmpty \/ txs # <<>>)

\* velocity(targetBlock) emits v: initialPosition emits up to two positions,
\* each of which getFeeTx combines with the snapshot it holds
VelocityReachesGetFeeTx(v) ==
    /\ VelocityEmits(v)
    /\ LET pairs == GetFeeTxOnPositions(txSlots, NewPositions)
           out == Emitted(pairs)
           pos == IF NewPositions = <<>> THEN txSlots[1]
                  ELSE <<NewPositions[Len(NewPositions)]>>
       IN  /\ txSlots' = <<pos, txSlots[2]>>
           /\ txStep' = [snap |-> <<>>, x |-> <<>>, pairs |-> pairs, out |-> out]
           /\ feeSeen' = (feeSeen \/ out # <<>>)
    /\ UNCHANGED <<txEvents, sawNext, sawNonEmpty>>

-----------------------------------------------------------------------------
(* The root subscriber: merge(minDiff$, minedTxsSummary$).retryWhen(...)   *)

MaxErrors == 2
RetryRaws == {1, 8}

retryVars == <<subscribed, errors, logged>>

RetryStart == subscribed = TRUE /\ errors = 0 /\ logged = <<>>

retryWhenTakesOne(n) == n = 1

\* err.delay(20e+3): the notifier emits once for every error, the n-th too
retryWhenNotifies(n) == TRUE

\* an error reaches the root subscriber: every subscription of the pipeline
\* is torn down (timer, socket, pending calls, scan and buffer state) and
\* retryWhen logs the error and hands it to its notifier
ErrorReachesRoot(err) ==
    /\ subscribed
    /\ logged' = <<err>>
    /\ errors < MaxErrors
    /\ errors' = errors + 1
    /\ subscribed' = FALSE
    /\ pending' = {}
    /\ pollCount' = 0
    /\ scanAcc' = <<>>
    /\ ducLast' = <<>>
    /\ prevSnap' = <<>>
    /\ ibiLatest' = <<>>
    /\ prevRaw' = <<>>
    /\ lastStep' = NoStep
    /\ counts' = [ resp |-> 0, runs |-> 0, snap |-> 0, pair |-> 0, mined |-> 0,
                   summary |-> 0 ]

\* rpc.getRawMemPool(true) rejects: fromPromise errors inside flatMap
RpcError(id) == id \in pending /\ ErrorReachesRoot("rpc")

\* the socket reports reconnect_error or reconnect_failed: subscriber.error
ZmqError == ErrorReachesRoot("reconnect")

\* the notifier emits after the delay: retryWhen subscribes to the merge again
Resubscribe ==
    /\ ~subscribed
    /\ retryWhenNotifies(errors)
    /\ subscribed' = TRUE
    /\ UNCHANGED <<errors, logged, pipeVars>>

-----------------------------------------------------------------------------
(* Specifications                                                          *)


vars == <<packVars, feeVars, kinVars, pipeVars, rateVars, txVars, retryVars>>

InitPack == PackInit /\ FeeIdle /\ KinIdle /\ PipeInit /\ RateIdle /\ TxStart /\ RetryStart
NextPack == PackCall /\ UNCHANGED <<feeVars, kinVars, pipeVars, rateVars, txVars, retryVars>>
SpecPack == InitPack /\ [][NextPack]_vars

InitFee == FeeIdle /\ PackIdle /\ KinIdle /\ PipeInit /\ RateIdle /\ TxStart /\ RetryStart
NextFee ==
    \E i \in DOMAIN range, r \in FeeRates :
        GetFeeEmits(i, r) /\ UNCHANGED <<packVars, kinVars, pipeVars, rateVars, txVars, retryVars>>
SpecFee == InitFee /\ [][NextFee]_vars

InitKin == KinInit /\ PackIdle /\ FeeIdle /\ PipeInit /\ RateIdle /\ TxStart /\ RetryStart
NextKin ==
    \/ \E x \in FinalPositions :
          FinalPositionEmits(x) /\ UNCHANGED <<packVars, feeVars, pipeVars, rateVars, txVars, retryVars>>
    \/ \E v \in Velocities :
          VelocityEmits(v) /\ UNCHANGED <<packVars, feeVars, pipeVars, rateVars, txVars, retryVars>>
SpecKin == InitKin /\ [][NextKin]_vars

Init == PipeInit /\ PackIdle /\ FeeIdle /\ KinIdle /\ RateIdle /\ TxStart /\ RetryStart
Next ==
    \/ TimerTick /\ UNCHANGED <<packVars, feeVars, kinVars, rateVars, txVars, retryVars>>
    \/ \E interval \in Intervals :
          BlockHash(interval) /\ UNCHANGED <<packVars, feeVars, kinVars, rateVars, txVars, retryVars>>
    \/ \E id \in pending, raw \in RawIds :
          RpcResponse(id, raw) /\ UNCHANGED <<packVars, feeVars, kinVars, rateVars, txVars, retryVars>>
Spec == Init /\ [][Next]_vars

InitRate == RateInit /\ PackIdle /\ FeeIdle /\ KinIdle /\ PipeInit /\ TxStart /\ RetryStart
NextRate ==
    \/ \E tx \in RateTxs :
          AddedTxEmits(tx) /\ UNCHANGED <<packVars, feeVars, pipeVars, txVars, retryVars>>
    \/ WindowTick /\ UNCHANGED <<packVars, feeVars, pipeVars, txVars, retryVars>>
    \/ \E txs \in RemovedLists :
          RemovedTxsEmit(txs) /\ UNCHANGED <<packVars, feeVars, pipeVars, txVars, retryVars>>
    \/ \E interval \in Intervals :
          BlockHashNotifies(interval) /\ UNCHANGED <<packVars, feeVars, pipeVars, txVars, retryVars>>
    \/ DelayedBlockHash /\ UNCHANGED <<packVars, feeVars, pipeVars, txVars, retryVars>>
SpecRate == InitRate /\ [][NextRate]_vars

InitTx ==
    /\ kinTarget \in {1, 2} /\ KinStart /\ TxStart /\ RetryStart
    /\ PackIdle /\ FeeIdle /\ PipeInit /\ RateIdle /\ RetryStart
NextTx ==
    \/ \E raw \in TxRaws :
          SnapshotEmits(raw) /\ UNCHANGED <<packVars, feeVars, pipeVars, rateVars, retryVars>>
    \/ \E v \in TxVelocities :
          VelocityReachesGetFeeTx(v)
             /\ UNCHANGED <<packVars, feeVars, pipeVars, rateVars, retryVars>>
SpecTx == InitTx /\ [][NextTx]_vars

InitRetry == PipeInit /\ RetryStart /\ PackIdle /\ FeeIdle /\ KinIdle /\ RateIdle /\ TxStart
Others == <<packVars, feeVars, kinVars, rateVars, txVars>>
RetryTick == subscribed /\ TimerTick /\ UNCHANGED <<Others, retryVars>>
RetryBlockHash ==
    \E interval \in Intervals :
        subscribed /\ BlockHash(interval) /\ UNCHANGED <<Others, retryVars>>
RetryResponse ==
    \E id \in pending, raw \in RetryRaws :
        subscribed /\ RpcResponse(id, raw) /\ UNCHANGED <<Others, retryVars>>
RetryRpcError == \E id \in pending : RpcError(id) /\ UNCHANGED Others
RetryZmqError == ZmqError /\ UNCHANGED Others
RetryResubscribe == Resubscribe /\ UNCHANGED Others
NextRetry ==
    \/ RetryTick
    \/ RetryBlockHash
    \/ RetryResponse
    \/ RetryRpcError
    \/ RetryZmqError
    \/ RetryResubscribe
\* the backoff timer and the poll timer fire, and a pending RPC call settles
SpecRetry ==
    /\ InitRetry /\ [][NextRetry]_vars
    /\ WF_vars(RetryResubscribe)
    /\ WF_vars(RetryTick)
    /\ WF_vars(RetryResponse)

-----------------------------------------------------------------------------
(* Claims about sortByFee (SpecPack)                                       *)

\* the number of positive multiples k * blockEffectiveSize strictly below c
MultiplesBelow(c) ==
    Cardinality({k \in 1 .. (c \div blockEffectiveSize + 1) :
                   k * blockEffectiveSize < c})

\* C9 (as stated): every transaction's targetBlock is 1 plus the number of
\* positive multiples of blockEffectiveSize strictly below its cumSize, also
\* when one transaction's size spans more than one multiple.
C9_TargetBlockCountsMultiples ==
    packOut # <<>> =>
        \A i \in DOMAIN packOut[1] :
            packOut[1][i].targetBlock = 1 + MultiplesBelow(packOut[1][i].cumSize)

\* C9 (amended): targetBlock never exceeds 1 plus the number of multiples
\* strictly below cumSize, and equals it for every transaction such that
\* neither it nor any transaction before it is larger than blockEffectiveSize
\* (a larger transaction increments targetBlock once only).
C9_TargetBlockAtMostOncePerTx ==
    packOut # <<>> =>
        \A i \in DOMAIN packOut[1] :
            /\ packOut[1][i].targetBlock <= 1 + MultiplesBelow(packOut[1][i].cumSize)
            /\ (\A j \in 1 .. i : packOut[1][j].size <= blockEffectiveSize)
                 => packOut[1][i].targetBlock = 1 + MultiplesBelow(packOut[1][i].cumSize)

C9_Witness ==
    /\ packOut # <<>>
    /\ Len(packOut[1]) = 3
    /\ \A j \in 1 .. 3 : packOut[1][j].size <= blockEffectiveSize
    /\ packOut[1][1].targetBlock = 1
    /\ packOut[1][2].cumSize = blockEffectiveSize
    /\ packOut[1][2].targetBlock = 1
    /\ packOut[1][3].targetBlock = 2

\* C10 (as stated): a single transaction larger than blockEffectiveSize gets
\* targetBlock = 1.
C10_OversizeSingleTxStaysInBlock1 ==
    (packOut # <<>> /\ Len(packIn) = 1 /\ packIn[1].size > blockEffectiveSize)
        => packOut[1][1].targetBlock = 1

\* C10 (amended): a single transaction larger than blockEffectiveSize gets
\* targetBlock = 2: the walk increments exactly once, whatever the size.
C10_OversizeSingleTxGoesToBlock2 ==
    (packOut # <<>> /\ Len(packIn) = 1 /\ packIn[1].size > blockEffectiveSize)
        => (Len(packOut[1]) = 1 /\ packOut[1][1].targetBlock = 2
            /\ packOut[1][1].cumSize = packIn[1].size)

C10_Witness ==
    /\ packOut # <<>>
    /\ Len(packIn) = 1
    /\ packIn[1].size > 2 * blockEffectiveSize
    /\ packOut[1][1].targetBlock = 2

-----------------------------------------------------------------------------
(* Claims about feeDiff$ and minDiff$ (SpecFee)                            *)

AllFees == \A i \in DOMAIN range : fees[i] # <<>>
LatestFee(i) == fees[i][1].feeRate
TargetsOf(list) == {list[k].targetBlock : k \in DOMAIN list}

\* the entry of the FeeDiff series that precedes position k
\* |diff| / feeRate(previous entry) >= minSavingsRate
ClearsThreshold(xs, k) ==
    /\ k > 1
    /\ JsLt(xs[k].diff, R(0))
    /\ JsGe(JsDiv(JsNeg(xs[k].diff), xs[k - 1].feeRate), minSavingsRate)

\* C1 (as stated): minDiff$ emits exactly the entries of the FeeDiff series
\* whose diff is 0 or whose relative discount |diff| / feeRate(previous entry)
\* is at least minSavingsRate; for fee rates 100, 95, 94, 94 the emitted list
\* holds targets 2 and 4 and not target 3.
C1_ValidIffDiscountClearsThreshold ==
    AllFees =>
        /\ TargetsOf(minDiffOut[1]) =
              { feeDiffOut[1][k].targetBlock : k \in
                  { k \in DOMAIN feeDiffOut[1] :
                      \/ JsStrictEq(feeDiffOut[1][k].diff, R(0))
                      \/ ClearsThreshold(feeDiffOut[1], k) } }
        /\ ( [i \in DOMAIN range |-> LatestFee(i)] = <<R(100), R(95), R(94), R(94)>>
               => (2 \in TargetsOf(minDiffOut[1]) /\ 4 \in TargetsOf(minDiffOut[1])
                   /\ 3 \notin TargetsOf(minDiffOut[1])) )

\* the running sum of diff over the FeeDiff series up to the entry of target t
RECURSIVE SumDiffUpTo(_, _)
SumDiffUpTo(xs, t) ==
    IF xs = <<>> THEN R(0)
    ELSE JsAdd(IF xs[Len(xs)].targetBlock <= t THEN xs[Len(xs)].diff ELSE R(0),
               SumDiffUpTo(SubSeq(xs, 1, Len(xs) - 1), t))

C3_FeeDiffKeepsNonPositiveSlopes ==
    /\ ~AllFees => (feeDiffOut = <<>> /\ minDiffOut = <<>>)
    /\ AllFees =>
        /\ \A i \in DOMAIN range :
              (range[i] \in TargetsOf(feeDiffOut[1]))
                 <=> (i = 1 \/ LatestFee(i).num <= LatestFee(i - 1).num)
        /\ \A k \in DOMAIN feeDiffOut[1] :
              LET t == feeDiffOut[1][k].targetBlock
              IN  /\ feeDiffOut[1][k].feeRate = LatestFee(t)
                  /\ feeDiffOut[1][k].diff =
                        (IF t = 1 THEN R(0)
                         ELSE R(LatestFee(t).num - LatestFee(t - 1).num))
        /\ \A k, l \in DOMAIN feeDiffOut[1] :
              k < l => feeDiffOut[1][k].targetBlock < feeDiffOut[1][l].targetBlock
        /\ TargetsOf(minDiffOut[1]) \subseteq TargetsOf(feeDiffOut[1])
        /\ \A i \in DOMAIN range :
              (i > 1 /\ LatestFee(i).num > LatestFee(i - 1).num)
                 => (range[i] \notin TargetsOf(feeDiffOut[1])
                     /\ range[i] \notin TargetsOf(minDiffOut[1]))

C3_Witness ==
    /\ AllFees
    /\ LatestFee(1) = R(90)
    /\ LatestFee(2) = R(95)
    /\ LatestFee(3) = R(94)
    /\ TargetsOf(feeDiffOut[1]) = {1, 3, 4}
    /\ 2 \notin TargetsOf(minDiffOut[1])

-----------------------------------------------------------------------------
(* Claims about acceleration and initialPosition (SpecKin)                 *)

\* C4 (as stated): acceleration(target) emits v1 first and then, for every
\* k >= 2, v_k - v_(k-1), the first difference of velocity(target).
\* (stated here for sequences of finite velocity values)
C4_AccelerationIsFirstDifference ==
    (\A k \in DOMAIN velHist : IsFinite(velHist[k])) =>
        /\ Len(accHist) = Len(velHist)
        /\ \A k \in DOMAIN velHist :
              accHist[k] = (IF k = 1 THEN velHist[1]
                            ELSE JsSub(velHist[k], velHist[k - 1]))

\* C5: every value initialPosition(target) emits is xFinal - (v * target +
\* a * target^2 / 2) for the latest values of finalPosition, velocity and
\* acceleration at the emission; nothing is emitted before each of the three
\* has emitted; no two consecutive emissions are equal (===).
C5_InitialPositionFormula ==
    /\ \A i \in DOMAIN ipOut :
          LET e == ipOut[i]
          IN  /\ e.nx \in 1 .. Len(xHist)
              /\ e.nv \in 1 .. Len(velHist)
              /\ e.na \in 1 .. Len(accHist)
              /\ e.value =
                    JsSub(R(0),
                          JsSub(JsAdd(JsMul(R(kinTarget), velHist[e.nv]),
                                      JsDiv(JsMul(accHist[e.na],
                                                  R(kinTarget * kinTarget)),
                                            R(2))),
                                xHist[e.nx]))
    /\ \A i \in DOMAIN ipOut :
          i > 1 => ~JsStrictEq(ipOut[i].value, ipOut[i - 1].value)
    /\ (xHist = <<>> \/ velHist = <<>> \/ accHist = <<>>) => ipOut = <<>>

C5_Witness ==
    /\ kinTarget = 3
    /\ Len(ipOut) >= 3
    /\ \A i \in DOMAIN ipOut : IsFinite(ipOut[i].value)
    /\ ipOut[3].na >= 2
    /\ ipOut[3].value.den = 2


-----------------------------------------------------------------------------
(* Claims about memPooler$, last2Mempools$ and the diffs (Spec)            *)

\* the txids of the raw mempool numbered k
IdsOf(k) == {RawFamily[k][i].txid : i \in DOMAIN RawFamily[k]}

PairEmitted == lastStep.pair # <<>>
S0Ids == IdsOf(lastStep.pair[1])
S1Ids == IdsOf(lastStep.pair[2])

\* C6: a pair of consecutive snapshots is forwarded by minedTxs$ exactly when
\* strictly more than 500 txids of the older snapshot are missing from the
\* newer one (500 missing: not forwarded; 501: forwarded), and
\* minedTxsSummary$ emits only for a forwarded removal.
C6_MinedIffMoreThan500Removed ==
    /\ PairEmitted =>
          /\ lastStep.nRemoved = Cardinality(S0Ids \ S1Ids)
          /\ lastStep.mined <=> Cardinality(S0Ids \ S1Ids) > 500
          /\ Cardinality(S0Ids \ S1Ids) = 500 => ~lastStep.mined
          /\ Cardinality(S0Ids \ S1Ids) = 501 => lastStep.mined
    /\ lastStep.summary => lastStep.mined /\ lastStep.nRemoved > 500
    /\ counts.summary <= counts.mined

\* a removal of 501 transactions was forwarded and summarised
C6_Witness ==
    /\ PairEmitted
    /\ lastStep.nRemoved = 501
    /\ lastStep.mined
    /\ lastStep.summary

\* C7: for every pair (S0, S1) last2Mempools$ emits, the txids addedTxs$
\* emits together with the common txids are those of S1, the txids
\* removedTxsShared$ emits together with the common txids are those of S0,
\* and no txid is both added and removed.
C7_DiffsPartitionSnapshots ==
    PairEmitted =>
        /\ lastStep.addedIds \cup (S0Ids \cap S1Ids) = S1Ids
        /\ lastStep.removedIds \cup (S0Ids \cap S1Ids) = S0Ids
        /\ lastStep.addedIds \cap lastStep.removedIds = {}
        /\ lastStep.nAdded = Cardinality(lastStep.addedIds)
        /\ lastStep.nRemoved = Cardinality(lastStep.removedIds)

\* a pair with added, removed and common transactions
C7_Witness ==
    /\ PairEmitted
    /\ lastStep.addedIds # {}
    /\ lastStep.removedIds # {}
    /\ S0Ids \cap S1Ids # {}

\* C8: a response deeply equal to the previous response emits no snapshot,
\* pair, added transaction or removal; a response that differs from the
\* previous one (or is the first) emits a snapshot; hence one snapshot per
\* run of equal responses and one pair per snapshot after the first.
C8_DedupByStructuralEquality ==
    /\ lastStep.dup =>
          /\ ~lastStep.snap
          /\ ~PairEmitted
          /\ lastStep.nAdded = 0
          /\ lastStep.nRemoved = 0
    /\ (counts.resp > 0 /\ ~lastStep.dup) => lastStep.snap
    /\ counts.snap = counts.runs
    /\ counts.pair = IF counts.snap = 0 THEN 0 ELSE counts.snap - 1

\* the same mempool was returned twice in a row, with the keys in another
\* order the second time, after an earlier different one
C8_Witness ==
    /\ lastStep.dup
    /\ prevRaw # <<>>
    /\ scanAcc # <<>>
    /\ prevRaw[1] # scanAcc[1].raw
    /\ counts.resp = 3
    /\ counts.snap = 2

-----------------------------------------------------------------------------
(* More claims about sortByFee (SpecPack)                                  *)

\* the snapshot sortByFee returned, once it has
Packed == packOut[1]

\* C11: along every snapshot targetBlock is non-decreasing in steps of 0 or
\* 1, by the rule that targetBlock and n start at 1 and are both incremented
\* at a transaction whose cumSize > n * blockEffectiveSize (n = targetBlock
\* throughout); sizes 600000, 500000, 100000 in fee order give [1, 2, 2].
C11_TargetBlockStepsByOne ==
    packOut # <<>> =>
        /\ \A i \in DOMAIN Packed :
              LET before == IF i = 1 THEN 1 ELSE Packed[i - 1].targetBlock
                  step == Packed[i].targetBlock - before
              IN  /\ step \in {0, 1}
                  /\ step = 1 <=> Packed[i].cumSize > before * blockEffectiveSize
        /\ [i \in DOMAIN Packed |-> Packed[i].size] = <<600000, 500000, 100000>>
              => [i \in DOMAIN Packed |-> Packed[i].targetBlock] = <<1, 2, 2>>

\* sizes 600000, 500000, 100000 were packed in that order
C11_Witness ==
    /\ packOut # <<>>
    /\ [i \in DOMAIN Packed |-> Packed[i].size] = <<600000, 500000, 100000>>
    /\ [i \in DOMAIN Packed |-> Packed[i].targetBlock] = <<1, 2, 2>>

\* the raw entry of packIn with txid t
RawOf(t) == packIn[CHOOSE i \in DOMAIN packIn : packIn[i].txid = t]

RECURSIVE SizeSum(_, _)
SizeSum(s, k) == IF k = 0 THEN 0 ELSE SizeSum(s, k - 1) + s[k].size

\* C12: a snapshot holds each transaction of the raw mempool once, with
\* feeRate = descendantfees / descendantsize of its raw entry, in order of
\* non-increasing feeRate, and the k-th cumSize is the sum of size over the
\* first k transactions (so cumSize is non-decreasing).
C12_FeeRateOrderAndPrefixSums ==
    packOut # <<>> =>
        /\ Len(Packed) = Len(packIn)
        /\ {Packed[i].txid : i \in DOMAIN Packed}
              = {packIn[i].txid : i \in DOMAIN packIn}
        /\ \A i \in DOMAIN Packed :
              /\ Packed[i].size = RawOf(Packed[i].txid).size
              /\ Packed[i].feeRate.num * RawOf(Packed[i].txid).descendantsize
                    = Packed[i].feeRate.den * RawOf(Packed[i].txid).descendantfees
              /\ Packed[i].cumSize = SizeSum(Packed, i)
        /\ \A i, j \in DOMAIN Packed :
              i < j => /\ JsGe(Packed[i].feeRate, Packed[j].feeRate)
                       /\ Packed[i].cumSize <= Packed[j].cumSize

\* three transactions whose key order is not the fee order
C12_Witness ==
    /\ packOut # <<>>
    /\ Len(Packed) = 3
    /\ Packed[1].txid = packIn[3].txid
    /\ JsGt(Packed[1].feeRate, Packed[3].feeRate)
    /\ Packed[3].cumSize > Packed[2].cumSize

-----------------------------------------------------------------------------
(* Claims about minedTxsSummary$ (Spec)                                    *)

\* the mined list of the last step, sorted as minedTxsSummary$ sorts it
MinedSorted ==
    SortByFeeRateDesc(Differences[lastStep.pair[1]][lastStep.pair[2]])

\* C13 (as stated): in every MinedSummary the fee of each quantile q is the
\* mean feeRate of the last ceil(|txs| * q) entries of the mined list sorted
\* by descending feeRate, a non-empty slice that holds the lowest-feeRate
\* transaction, and minFeeTx is a transaction of lowest feeRate.
C13_QuantileMeanOverCeilTail ==
    lastStep.minedSummary # <<>> =>
        LET s == lastStep.minedSummary[1]
            x == MinedSorted
        IN  /\ s.txs = Len(x)
            /\ \A k \in DOMAIN quantiles :
                  /\ minQuantFromCeil(x, quantiles[k]) # <<>>
                  /\ s.fee[k] = meanBy(minQuantFromCeil(x, quantiles[k]))
            /\ \A i \in DOMAIN x :
                  x[i].txid = s.minFeeTx
                     => \A j \in DOMAIN x : JsLe(x[i].feeRate, x[j].feeRate)

-----------------------------------------------------------------------------
(* Claims about the rate streams (SpecRate)                                *)

\* C14 (as stated): while no transaction has been added or removed (every
\* polled mempool is empty), addedBytesAheadTargetPer10min,
\* removedBytesAheadTargetPer10min, velocity and acceleration emit nothing,
\* whatever window ticks and block hashes occur.
C14_EmptyMempoolKeepsRatesSilent ==
    ~sawTx => (addOut = <<>> /\ rmOut = <<>> /\ velHist = <<>> /\ accHist = <<>>)

ZeroOrNaN(s) == \A i \in DOMAIN s : s[i] \in {R(0), NaN}

\* C14 (amended): while no transaction has been added or removed, the rate
\* streams carry no bytes: addedBytesAheadTargetPer10min emits 0 once (when
\* the first window closes), removedBytesAheadTargetPer10min emits 0 once
\* intBlocksRemoved block events are buffered (NaN when their intervals sum
\* to 0), never 0 twice in a row, and velocity and acceleration emit only 0
\* or NaN, velocity not before both rates have emitted.
C14_EmptyMempoolEmitsZeroRates ==
    ~sawTx =>
        /\ addOut \in {<<>>, <<R(0)>>}
        /\ ZeroOrNaN(rmOut) /\ ZeroOrNaN(velHist) /\ ZeroOrNaN(accHist)
        /\ \A i \in DOMAIN rmOut : i > 1 => ~JsStrictEq(rmOut[i], rmOut[i - 1])
        /\ Len(accHist) = Len(velHist)
        /\ velHist # <<>> => (addOut # <<>> /\ rmOut # <<>>)
        /\ (rmOut # <<>> /\ \A i \in DOMAIN rmOut : rmOut[i] = R(0))
              => Len(velHist) <= 1

\* with no transaction at all, velocity and acceleration have emitted 0
C14_Witness ==
    /\ ~sawTx
    /\ addOut = <<R(0)>>
    /\ rmOut = <<R(0)>>
    /\ velHist = <<R(0)>>
    /\ accHist = <<R(0)>>


-----------------------------------------------------------------------------
(* Claims about finalPosition, getFeeTx and getFee                         *)

NextBlockPlaces(txs) == {i \in DOMAIN txs : txs[i].targetBlock = kinTarget + 1}

\* C15: for a snapshot with a transaction of targetBlock = target + 1,
\* finalPosition(target) emits the cumSize of the first such transaction, and
\* nothing for a snapshot without one; getFee(target) has emitted no
\* FeeEstimate unless some snapshot held such a transaction, and none at all
\* while every snapshot was empty.
C15_FinalPositionGatesFeeEstimates ==
    /\ txStep.snap # <<>> =>
          LET txs == txStep.snap[1]
          IN  /\ (txStep.x = <<>>) <=> (NextBlockPlaces(txs) = {})
              /\ txStep.x # <<>> =>
                    \E i \in NextBlockPlaces(txs) :
                        /\ \A j \in NextBlockPlaces(txs) : i <= j
                        /\ txStep.x[1] = R(txs[i].cumSize)
    /\ feeSeen => sawNext
    /\ ~sawNonEmpty => (~feeSeen /\ txStep.out = <<>> /\ ipOut = <<>>)

C15_Witness ==
    /\ txStep.snap # <<>> /\ txStep.x # <<>>
    /\ Len(txStep.snap[1]) = 2
    /\ txStep.out # <<>>
    /\ feeSeen

MinimalPlaces(p) ==
    {i \in DOMAIN p.txs :
        \A j \in DOMAIN p.txs : JsLe(distance(p.txs[i], p.pos), distance(p.txs[j], p.pos))}

-----------------------------------------------------------------------------
(* Claims about the order of snapshots                                     *)

\* C17 as stated: the two snapshots of every pair last2Mempools$ emits come
\* from RPC calls in the order in which the calls were triggered, also when
\* the later call's response completes first.
C17_PairsInPollTriggerOrder ==
    lastStep.refs # <<>> => lastStep.refs[1] < lastStep.refs[2]


-----------------------------------------------------------------------------
(* Claims about degenerate rates                                           *)

AllFinite(s) == \A i \in DOMAIN s : IsFinite(s[i])

\* C19 as stated: a window of removed transactions whose inter-block
\* intervals sum to 0 makes removedBytesAheadTargetPer10min emit nothing, so
\* every value it emits, and every value of velocity and acceleration, is a
\* finite number.
C19_ZeroIntervalEmitsNothing ==
    AllFinite(rmOut) /\ AllFinite(velHist) /\ AllFinite(accHist)


-----------------------------------------------------------------------------
(* Claims about the samples initialPosition combines                       *)

\* C20 as stated: every value initialPosition(target) emits combines the
\* k-th velocity with the acceleration produced for that same k-th velocity.
C20_VelocityAndAccelerationOfOneSample ==
    \A i \in DOMAIN ipOut : ipOut[i].nv = ipOut[i].na


-----------------------------------------------------------------------------
(* Claims about errors and the retry supervisor (SpecRetry)                *)

PipelineIsFresh ==
    /\ pending = {} /\ pollCount = 0
    /\ scanAcc = <<>> /\ ducLast = <<>> /\ prevSnap = <<>>
    /\ ibiLatest = <<>> /\ prevRaw = <<>>

====
